---- MODULE Spec2Model ----
(***************************************************************************)
(* radiosonde_auto_rx: SondeDecoder (auto_rx/autorx/decode.py).            *)
(*                                                                         *)
(* One SondeDecoder instance: the constructor, the decoder thread          *)
(* (decoder_thread), the per-line handler (handle_decoder_line), stop()    *)
(* and running(), together with the child process and the asynchronous     *)
(* line reader the thread talks to, a clock, and the callers of stop().    *)
(***************************************************************************)
EXTENDS Integers, Sequences, FiniteSets, TLC

(***************************************************************************)
(* Bounds of the model.                                                    *)
(***************************************************************************)
MaxLines == 2
MaxTime == 3
TimeoutTicks == 1

\* The threads that may call stop().
Callers == {"main", "other"}

None == "None"

(***************************************************************************)
(* Sonde type strings, as sequences of characters: the constructor tests   *)
(* the first character of the type and takes the rest of the string.       *)
(***************************************************************************)
RS92 == <<"R", "S", "9", "2">>
RS41 == <<"R", "S", "4", "1">>
DFM == <<"D", "F", "M">>
M10 == <<"M", "1", "0">>
iMet == <<"i", "M", "e", "t">>
\* The default of the sonde_type argument, the string "None".
DefaultType == <<"N", "o", "n", "e">>

(***************************************************************************)
(* Class constants.                                                        *)
(***************************************************************************)
VALID_SONDE_TYPES == {RS92, RS41, DFM, M10, iMet}

DECODER_REQUIRED_FIELDS == <<"frame", "id", "datetime", "lat", "lon", "alt">>

\* Temperatures are in whole degrees: -273 stands for -273.0, 0 for 0.0.
DECODER_OPTIONAL_FIELDS ==
    [temp |-> -273, humidity |-> -1, batt |-> -1,
     vel_h |-> 0, vel_v |-> 0, heading |-> 0]

\* Default of the sonde_freq argument, in Hz.
sonde_freq == 400000000
\* Default of the device_idx argument.
device_idx == 0
\* Default of the imet_location argument.
imet_location == ""
\* Fewest satellites that count as a GPS lock.
MinSats == 4

(***************************************************************************)
(* Lines of decoder output.  A line is the value the reader hands to the   *)
(* loop: its Python type (the lines of the child's pipe are bytes),        *)
(* whether it decodes as ASCII, its first character ("" when it has        *)
(* none), whether json.loads accepts it, and the object it parses to (a    *)
(* function from keys to values).                                          *)
(***************************************************************************)
Ext(f, k, v) == (k :> v) @@ f

Without(f, k) == [x \in (DOMAIN f) \ {k} |-> f[x]]

NoObj == [x \in {} |-> 0]

BaseObj ==
    [frame |-> 1, id |-> "N1", datetime |-> "2020-01-01T00:00:10Z",
     lat |-> 1, lon |-> 2, alt |-> 3]

JsonLine(obj) ==
    [type |-> "bytes", ascii |-> TRUE, first |-> "{", json |-> "dict",
     obj |-> obj]

\* A diagnostic line of the decoder: text that does not start with '{'.
LDiag ==
    [type |-> "bytes", ascii |-> TRUE, first |-> "#",
     json |-> "error", obj |-> NoObj]
\* A blank line ("\n").
LBlank ==
    [type |-> "bytes", ascii |-> TRUE, first |-> "\n",
     json |-> "error", obj |-> NoObj]
\* Empty bytes, b''.
LEmpty ==
    [type |-> "bytes", ascii |-> TRUE, first |-> "",
     json |-> "error", obj |-> NoObj]
\* The empty str, ''.
LEmptyStr ==
    [type |-> "str", ascii |-> TRUE, first |-> "", json |-> "error",
     obj |-> NoObj]
\* None.
LNone ==
    [type |-> "NoneType", ascii |-> TRUE, first |-> "", json |-> "error",
     obj |-> NoObj]
\* Bytes that are not ASCII.
LNonAscii ==
    [type |-> "bytes", ascii |-> FALSE, first |-> "?",
     json |-> "error", obj |-> NoObj]
\* Starts with '{' but is not JSON.
LBadJson ==
    [type |-> "bytes", ascii |-> TRUE, first |-> "{",
     json |-> "error", obj |-> NoObj]
\* All required fields, nothing else.
LBase == JsonLine(BaseObj)
\* All required fields and a satellite count with lock.
LValid == JsonLine(Ext(BaseObj, "sats", 5))
\* A later frame of the same flight with lock.
LValid2 == JsonLine(Ext(Ext(Ext(BaseObj, "sats", 6), "frame", 3),
                        "datetime", "2020-01-01T00:00:11Z"))
\* A satellite count without lock.
LLowSats == JsonLine(Ext(BaseObj, "sats", 3))
\* A required field is missing.
LMissing == JsonLine(Without(Ext(BaseObj, "sats", 5), "alt"))
\* The encryption marker, with all required fields.
LEncrypted == JsonLine(Ext(Ext(BaseObj, "sats", 5), "encrypted", TRUE))
\* An unparseable timestamp.
LBadDate == JsonLine(Ext(Ext(BaseObj, "sats", 5), "datetime", "nolock"))

\* JSON that is not an object, such as a list: it does not start with '{'
\* (JSON text that starts with '{' is an object or does not parse).
LNotObject ==
    [type |-> "bytes", ascii |-> TRUE, first |-> "[",
     json |-> "list", obj |-> NoObj]
\* The empty JSON object.
LEmptyObj == JsonLine(NoObj)
\* A frame with a temperature and a satellite count that lacks one required
\* field.
MissingLine(_field) ==
    JsonLine(Without(Ext(Ext(BaseObj, "sats", 5), "temp", 20), _field))
\* The encryption marker on a frame that lacks a required field.
LEncMissing == JsonLine(Without(Ext(BaseObj, "encrypted", TRUE), "id"))

\* Values a sonde reports for the optional fields.
Reported ==
    [temp |-> 20, humidity |-> 50, batt |-> 3,
     vel_h |-> 5, vel_v |-> 2, heading |-> 90]
\* A frame with lock that reports the optional fields in present only.
OptionalLine(present) ==
    JsonLine([k \in present |-> Reported[k]] @@ Ext(BaseObj, "sats", 5))

\* The encryption marker on a frame whose timestamp does not parse.
LEncBadDate == JsonLine(Ext(LBadDate.obj, "encrypted", TRUE))

\* The lines the child process of the model can write.
LineSet == {LMissing, LBase, LValid, LEncrypted}

\* Output with frames that lack required fields, and a complete frame.
MissingLines ==
    {MissingLine(DECODER_REQUIRED_FIELDS[i]) :
        i \in 1..Len(DECODER_REQUIRED_FIELDS)}
    \cup {LEmptyObj, LEncMissing, LValid}

\* Output with a line for each transient reject, and a complete frame.
RejectLines ==
    {LDiag, LNotObject, LBadJson, LMissing, LBadDate, LLowSats, LValid}

\* Output with frames that report none, one, three or all of the optional
\* fields.
OptionalLines ==
    {OptionalLine(present) : present \in
        {P \in SUBSET DOMAIN DECODER_OPTIONAL_FIELDS :
            \/ Cardinality(P) \in {0, 1, 6}
            \/ P = {"temp", "batt", "vel_v"}
            \/ P = {"humidity", "vel_h", "heading"}}}

\* Output of an encrypted sonde: the marker on a complete frame, on a frame
\* with an unparseable timestamp and on a frame that lacks a required field;
\* and frames without the marker.
EncryptedLines == {LEncrypted, LEncBadDate, LEncMissing, LBadDate, LValid}

\* The output of an iMet decoder: frames with lock whose power-on times
\* differ, and a frame without lock.
ImetLines == {LValid, LValid2, LLowSats}

(***************************************************************************)
(* dateutil.parser.parse on the timestamps of the model: the seconds       *)
(* since 2020-01-01T00:00:00Z, or -1 where parse raises.                   *)
(***************************************************************************)
parse(s) ==
    CASE s = "2020-01-01T00:00:10Z" -> 10
      [] s = "2020-01-01T00:00:11Z" -> 11
      [] s = "2020-01-01T00:00:12Z" -> 12
      [] OTHER -> -1

\* sonde_specific.imet_fix_datetime: the time of day of the frame, on the
\* present date.
imet_fix_datetime(s) == parse(s)

\* sonde_specific.imet_unique_id: a function of the power-on time (frame
\* time less one second per frame) and the frequency.
imet_unique_id(telemetry) ==
    LET _power_on == telemetry["datetime_dt"] - telemetry["frame"]
    IN  CASE _power_on = 8 -> "IMET-8"
          [] _power_on = 9 -> "IMET-9"
          [] OTHER -> "IMET-X"

\* "%.3f MHz" % (sonde_freq/1e6): whole MHz and thousandths, rounded.
FreqFloat == [mhz |-> sonde_freq \div 1000000, hz |-> sonde_freq % 1000000]

FreqString ==
    LET _milli == (sonde_freq + 500) \div 1000
    IN  [whole |-> _milli \div 1000, frac |-> _milli % 1000, unit |-> "MHz"]

Ozone(t) == t \o <<"-", "O", "z", "o", "n", "e">>

(***************************************************************************)
(* handle_decoder_line.  self is the object as the handler reads it        *)
(* (sonde_type, imet_id, exit_state, decoder_running, telem_filter,        *)
(* exporters); fv is what the telemetry filter does if it is called        *)
(* ("True", "False" or "raise").  The result gives the value returned      *)
(* ("None", "False", "True", or the exception that escapes the handler),   *)
(* the fields of the object afterwards, the calls made to the filter and   *)
(* to the exporters, in order, and whether the handler found the frame     *)
(* acceptable (its _telem_ok, False where that point is not reached).      *)
(***************************************************************************)
Outcome(self, ret, fcalls, ecalls) ==
    [ret |-> ret, imet_id |-> self.imet_id, exit_state |-> self.exit_state,
     decoder_running |-> self.decoder_running,
     filter_calls |-> fcalls, exporter_calls |-> ecalls, telem_ok |-> FALSE]

\* A check of the first required field only.
MissingRequiredFirst(_telemetry) ==
    {i \in {1} : DECODER_REQUIRED_FIELDS[i] \notin DOMAIN _telemetry}

\* Lines 437-441: the required fields that are absent.
MissingRequired(_telemetry) ==
    {i \in 1..Len(DECODER_REQUIRED_FIELDS) :
        DECODER_REQUIRED_FIELDS[i] \notin DOMAIN _telemetry}

\* Defaults that replace the values of the frame.
FillOptionalOverwriting(_telemetry) == DECODER_OPTIONAL_FIELDS @@ _telemetry

\* Lines 443-446: every absent optional field gets its default.
FillOptional(_telemetry) == _telemetry @@ DECODER_OPTIONAL_FIELDS

\* A marker that is looked at only once the timestamp has parsed.
IsEncryptedAfterParse(_telemetry) ==
    "encrypted" \in DOMAIN _telemetry /\ parse(_telemetry["datetime"]) >= 0

\* Line 450: the frame carries the encryption marker.
IsEncrypted(_telemetry) == "encrypted" \in DOMAIN _telemetry

\* Lines 449-454: an encrypted sonde closes the decoder.
EncryptedOutcome(self) ==
    [Outcome(self, "False", <<>>, <<>>) EXCEPT
        !.exit_state = "Encrypted", !.decoder_running = FALSE]

\* Lines 463-474: the fields added to every frame.
AddFields(self, _telemetry) ==
    LET t1 == Ext(_telemetry, "type", self.sonde_type)
        t2 == Ext(t1, "freq_float", FreqFloat)
        t3 == Ext(t2, "freq", FreqString)
        t4 == Ext(t3, "sdr_device_idx", device_idx)
    IN  IF "aux" \in DOMAIN t4
        THEN [t4 EXCEPT !["type"] = Ozone(t4["type"])]
        ELSE t4

\* A lock test that lets every frame through.
NoGpsLockIgnored(_telemetry) == FALSE

\* Line 480: the GPS lock test of the iMet branch.
NoGpsLock(_telemetry) == _telemetry["sats"] < MinSats

\* An ID calculated afresh for every frame.
LatchImetIdAlways(self, _telemetry) == imet_unique_id(_telemetry)

\* Lines 489-490: the ID is calculated only while none is latched.
LatchImetId(self, _telemetry) ==
    IF self.imet_id = None THEN imet_unique_id(_telemetry) ELSE self.imet_id

\* Line 486: the time of the frame, fixed up.
ImetFixTime(_telemetry) ==
    [_telemetry EXCEPT
        !["datetime_dt"] = imet_fix_datetime(_telemetry["datetime"])]

\* Lines 492-493: the frame carries the latched ID and the station code.
ImetFrame(_imet_id, _telemetry) ==
    Ext([_telemetry EXCEPT !["id"] = _imet_id], "station_code", imet_location)

\* A filter whose verdict is ignored.
FilterVerdictIgnored(fv) == TRUE

\* Lines 500-504: the verdict of the filter; a filter that raises accepts.
FilterVerdict(fv) == IF fv = "raise" THEN TRUE ELSE fv = "True"

\* An exporter loop that an exception ends.
ExporterCallsUnguarded(exps, _telemetry) ==
    LET raising == {i \in 1..Len(exps) : exps[i] = "raise"}
        last == IF raising = {} THEN Len(exps)
                ELSE CHOOSE i \in raising : \A j \in raising : i <= j
    IN  [i \in 1..last |-> [exporter |-> i, telemetry |-> _telemetry]]

\* Lines 512-516: every exporter is called in turn; an exporter that raises
\* is logged and the loop goes on.
ExporterCalls(exps, _telemetry) ==
    [i \in 1..Len(exps) |-> [exporter |-> i, telemetry |-> _telemetry]]

\* Lines 507-518: the value returned once the filter has spoken.
DispatchReturn(exps, _telem_ok) ==
    IF exps = None THEN "None"
    ELSE IF _telem_ok THEN "True" ELSE "False"

\* Lines 495-518: filter, then exporters.
Dispatch(self, _telemetry, fv) ==
    LET _filtered == self.telem_filter # None
        _telem_ok == IF _filtered THEN FilterVerdict(fv) ELSE TRUE
        fcalls == IF _filtered
                  THEN <<[telemetry |-> _telemetry, verdict |-> fv]>>
                  ELSE <<>>
        ecalls == IF self.exporters # None /\ _telem_ok
                  THEN ExporterCalls(self.exporters, _telemetry)
                  ELSE <<>>
    IN  [Outcome(self, DispatchReturn(self.exporters, _telem_ok), fcalls, ecalls)
            EXCEPT !.telem_ok = _telem_ok]

handle_decoder_line(self, data, fv) ==
    IF ~data.ascii THEN Outcome(self, "None", <<>>, <<>>)
    ELSE IF data.first = "" THEN Outcome(self, "IndexError", <<>>, <<>>)
    ELSE IF data.first # "{" THEN Outcome(self, "None", <<>>, <<>>)
    ELSE IF data.json = "error" THEN Outcome(self, "False", <<>>, <<>>)
    ELSE IF data.json # "dict" THEN Outcome(self, "False", <<>>, <<>>)
    ELSE IF MissingRequired(data.obj) # {} THEN Outcome(self, "False", <<>>, <<>>)
    ELSE LET t1 == FillOptional(data.obj) IN
    IF IsEncrypted(t1) THEN EncryptedOutcome(self)
    ELSE IF parse(t1["datetime"]) < 0 THEN Outcome(self, "False", <<>>, <<>>)
    ELSE LET t2 == AddFields(self, Ext(t1, "datetime_dt", parse(t1["datetime"]))) IN
    IF self.sonde_type # iMet THEN Dispatch(self, t2, fv)
    ELSE IF "sats" \notin DOMAIN t2 THEN Outcome(self, "KeyError", <<>>, <<>>)
    ELSE IF NoGpsLock(t2) THEN Outcome(self, "False", <<>>, <<>>)
    ELSE LET t3 == ImetFixTime(t2)
             latched == [self EXCEPT !.imet_id = LatchImetId(self, t3)]
         IN  Dispatch(latched, ImetFrame(latched.imet_id, t3), fv)

\* The values of a returned result that raise out of the handler.
Raised(ret) == ret \in {"KeyError", "IndexError"}

\* Line 360: "if _ok".
Truthy(ret) == ret = "True"

(***************************************************************************)
(* The constructor.  args: the sonde_type, exporter, telem_filter, timeout *)
(* and rs92_ephemeris arguments, and what the collaborators answer         *)
(* (rtlsdr_test, get_ephemeris, get_almanac).                              *)
(***************************************************************************)
\* Lines 147-153: a leading '-' marks an inverted sonde; that one
\* character is stripped, whatever follows it.
StripInverted(t) == IF t # <<>> /\ Head(t) = "-" THEN Tail(t) ELSE t

\* A constructor that takes any list.
ExporterTypeErrorNever(exporter) == FALSE

\* Lines 172-191: None, a function, or a list of functions.
ExporterList(exporter) ==
    CASE exporter.kind = "None" -> None
      [] exporter.kind = "function" -> <<exporter.f>>
      [] exporter.kind = "list" -> exporter.fs
      [] OTHER -> "TypeError"

ExporterTypeError(exporter) ==
    \/ exporter.kind \notin {"None", "function", "list"}
    \/ /\ exporter.kind = "list"
       /\ \E i \in 1..Len(exporter.fs) : exporter.fs[i] = "notfunction"

\* generate_decoder_command: the decoder program and, for the RS92, its
\* GPS data; None where no command can be built.
generate_decoder_command(t, rs92_ephemeris, got_ephemeris, got_almanac) ==
    CASE t = RS41 -> "rs41mod --ptu --json"
      [] t = RS92 ->
            IF rs92_ephemeris # None THEN "rs92mod -e <rs92_ephemeris>"
            ELSE IF got_ephemeris # None THEN "rs92mod -e ephemeris.dat"
            ELSE IF got_almanac # None THEN "rs92mod -a almanac.txt"
            ELSE None
      [] t = DFM -> "dfm09ecc --json"
      [] t = M10 -> "m10 -b -b2"
      [] t = iMet -> "imet1rs_dft --json"
      [] OTHER -> None

\* The object at the end of __init__: its fields, whether __init__ raised,
\* and whether the decoder thread was started.
Construct(args) ==
    LET t == StripInverted(args.sonde_type)
        base == [sonde_type |-> t, telem_filter |-> args.telem_filter,
                 timeout |-> args.timeout, imet_id |-> None,
                 decoder |-> None, exit_state |-> "OK",
                 decoder_running |-> TRUE, exporters |-> "unset",
                 decoder_command |-> "unset", raised |-> None]
        cmd == generate_decoder_command(t, args.rs92_ephemeris,
                                        args.got_ephemeris, args.got_almanac)
    IN  IF t \notin VALID_SONDE_TYPES
        THEN [base EXCEPT !.decoder_running = FALSE]
        ELSE IF ~args.rtlsdr_ok
        THEN [base EXCEPT !.decoder_running = FALSE]
        ELSE IF ExporterTypeError(args.exporter)
        THEN [base EXCEPT !.raised = "TypeError"]
        ELSE IF cmd = None
        THEN [base EXCEPT !.exporters = ExporterList(args.exporter),
                          !.decoder_command = cmd,
                          !.decoder_running = FALSE]
        ELSE [base EXCEPT !.exporters = ExporterList(args.exporter),
                          !.decoder_command = cmd,
                          !.decoder_running = TRUE,
                          !.decoder = "Thread"]

\* The arguments the constructions of the model are drawn from: every
\* sonde type with no exporter, a list of exporters and a list that holds
\* something else than a function, with and without a filter, with a
\* working and a failing SDR; a single exporter function; and an RS92 for
\* which an almanac could be downloaded.
CtorArgs ==
    [sonde_type : {RS41, iMet, RS92, DefaultType},
     exporter : {[kind |-> "None"],
                 [kind |-> "list", fs |-> <<"raise", "ok", "raise">>],
                 [kind |-> "list", fs |-> <<"ok", "notfunction">>]},
     telem_filter : {None, "filter"},
     timeout : {TimeoutTicks},
     rtlsdr_ok : BOOLEAN,
     rs92_ephemeris : {None},
     got_ephemeris : {None},
     got_almanac : {None}]
    \cup
    [sonde_type : {RS41},
     exporter : {[kind |-> "function", f |-> "ok"]},
     telem_filter : {None},
     timeout : {TimeoutTicks},
     rtlsdr_ok : {TRUE},
     rs92_ephemeris : {None},
     got_ephemeris : {None},
     got_almanac : {None}]
    \cup
    [sonde_type : {RS92},
     exporter : {[kind |-> "function", f |-> "ok"]},
     telem_filter : {None},
     timeout : {TimeoutTicks},
     rtlsdr_ok : {TRUE},
     rs92_ephemeris : {None},
     got_ephemeris : {None},
     got_almanac : {"almanac.txt"}]

\* iMet decoders with one exporter function, with and without a filter.
ImetArgs ==
    [sonde_type : {iMet},
     exporter : {[kind |-> "function", f |-> "ok"]},
     telem_filter : {None, "filter"},
     timeout : {TimeoutTicks},
     rtlsdr_ok : {TRUE},
     rs92_ephemeris : {None},
     got_ephemeris : {None},
     got_almanac : {None}]

\* Decoders with a filter and one exporter function: an inverted RS41 and
\* an iMet.
FilteredArgs ==
    [sonde_type : {(<<"-">> \o RS41), iMet},
     exporter : {[kind |-> "function", f |-> "ok"]},
     telem_filter : {"filter"},
     timeout : {TimeoutTicks},
     rtlsdr_ok : {TRUE},
     rs92_ephemeris : {None},
     got_ephemeris : {None},
     got_almanac : {None}]

\* Decoders with one exporter function and no filter.
PlainArgs ==
    [sonde_type : {RS41, iMet, DefaultType},
     exporter : {[kind |-> "function", f |-> "ok"]},
     telem_filter : {None},
     timeout : {TimeoutTicks},
     rtlsdr_ok : {TRUE},
     rs92_ephemeris : {None},
     got_ephemeris : {None},
     got_almanac : {None}]

(***************************************************************************)
(* State.                                                                  *)
(*   sonde_type, exporters, telem_filter, timeout, decoder_running,        *)
(*   exit_state, imet_id, decoder, decoder_command, decode_process,        *)
(*   async_reader: the fields of the object; ctor_raised: what __init__    *)
(*     raised;                                                             *)
(*   pc, last_packet, lines: the decoder thread's position, its            *)
(*     _last_packet and the lines of readlines() not yet handled;          *)
(*   now: the clock (time.time()); emitted: lines written by the child;    *)
(*   callers: where each caller of stop() is;                              *)
(*   filter_calls, exporter_calls, results: the calls made to the filter   *)
(*     and to the exporters and the values handle_decoder_line returned;   *)
(*   last_accepted: the time at which the handler last found a frame       *)
(*     acceptable, or else at which the thread started;                    *)
(*   teardown: the teardown steps taken, in order.                         *)
(***************************************************************************)
VARIABLES sonde_type, exporters, telem_filter, timeout, decoder_running,
          exit_state, imet_id, decoder, decoder_command, ctor_raised,
          decode_process,
          async_reader, pc, last_packet, lines, now, emitted, callers,
          filter_calls, exporter_calls, results, last_accepted, teardown

config == <<sonde_type, exporters, telem_filter, timeout, decoder,
            decoder_command, ctor_raised>>
object == <<decoder_running, exit_state, imet_id>>
observed == <<filter_calls, exporter_calls, results, last_accepted>>
vars == <<config, object, decode_process, async_reader, pc, last_packet,
          lines, now, emitted, callers, observed, teardown>>

\* running()
running == decoder_running

\* The object as handle_decoder_line reads it.
Self ==
    [sonde_type |-> sonde_type, imet_id |-> imet_id,
     exit_state |-> exit_state, decoder_running |-> decoder_running,
     telem_filter |-> telem_filter, exporters |-> exporters]

\* AsynchronousFileReader before it is created.
NoReader == [created |-> FALSE, alive |-> FALSE, stopped |-> FALSE,
             joined |-> FALSE, queue |-> <<>>]

\* AsynchronousFileReader.eof(): the reader has ended and its queue is empty.
ReaderEof(r) == ~r.alive /\ r.queue = <<>>

\* A join that does not wait.
ThreadEndedNoWait(p) == TRUE

\* Threading: the decoder thread has ended (normally or by an exception).
ThreadEnded(p) == p \in {"done", "crashed"}

\* The state after __init__(args), with the threads in stoppers holding a
\* reference to the object.
InitWith(argset, stoppers) ==
    /\ \E args \in argset :
        LET o == Construct(args) IN
        /\ sonde_type = o.sonde_type
        /\ exporters = o.exporters
        /\ telem_filter = o.telem_filter
        /\ timeout = o.timeout
        /\ decoder_running = o.decoder_running
        /\ exit_state = o.exit_state
        /\ imet_id = o.imet_id
        /\ decoder = o.decoder
        /\ decoder_command = o.decoder_command
        /\ ctor_raised = o.raised
        /\ pc = IF o.decoder = None THEN "none" ELSE "start"
    /\ callers = [c \in stoppers |-> "idle"]
    /\ decode_process = None
    /\ async_reader = NoReader
    /\ last_packet = 0
    /\ lines = <<>>
    /\ now = 0
    /\ emitted = 0
    /\ filter_calls = <<>>
    /\ exporter_calls = <<>>
    /\ results = <<>>
    /\ last_accepted = 0
    /\ teardown = <<>>

\* One thread holds the decoder and may stop it.
Init == InitWith(CtorArgs, {"main"})

\* A plain decoder held by one thread.
PlainInit == InitWith(PlainArgs, {"main"})

\* A plain decoder that two threads may stop.
SharedInit == InitWith(PlainArgs, Callers)

\* An iMet decoder held by one thread.
ImetInit == InitWith(ImetArgs, {"main"})

\* A decoder with a filter and an exporter, held by one thread.
FilteredInit == InitWith(FilteredArgs, {"main"})

(***************************************************************************)
(* The decoder thread (decoder_thread).                                    *)
(***************************************************************************)
\* Lines 342-350: note the time, start the subprocess and the reader.
ThreadStart ==
    /\ pc = "start"
    /\ last_packet' = now
    /\ decode_process' = "running"
    /\ async_reader' = [NoReader EXCEPT !.created = TRUE, !.alive = TRUE]
    /\ pc' = "while"
    /\ last_accepted' = now
    /\ UNCHANGED <<config, object, lines, now, emitted, callers, filter_calls,
                   exporter_calls, results, teardown>>

\* A loop that ends as soon as the stream has closed.
LoopConditionStreamOpen(r, flag) == r.alive /\ flag

\* Line 352: the loop goes on while the reader is not at EOF and the
\* running flag is set.
LoopCondition(r, flag) == (~ReaderEof(r)) /\ flag

\* Lines 352-354: test the loop condition; take the queued lines.
WhileTest ==
    /\ pc = "while"
    /\ IF LoopCondition(async_reader, decoder_running)
       THEN /\ lines' = async_reader.queue
            /\ async_reader' = [async_reader EXCEPT !.queue = <<>>]
            /\ pc' = "for"
       ELSE /\ pc' = "teardown"
            /\ UNCHANGED <<lines, async_reader>>
    /\ UNCHANGED <<config, object, decode_process, last_packet, now, emitted,
                   callers, observed, teardown>>

\* Line 355: a line that is None or equal to the str "" is skipped.  Empty
\* bytes are not equal to "", so b'' is passed to the handler.
SkipLine(_line) ==
    \/ _line.type = "NoneType"
    \/ _line.type = "str" /\ _line.first = ""

\* A clock that any handled line resets.
LastPacketAfterAnyLine(_ok, old, t) == t

\* Lines 360-361: the time of the last packet after a line has been handled.
LastPacketAfter(_ok, old, t) == IF Truthy(_ok) THEN t ELSE old

\* A loop that takes the newest line first.
NextLineNewest(batch) == batch[Len(batch)]

\* Line 354: the for loop takes the lines of the batch from the front.
NextLine(batch) == Head(batch)

\* Lines 354-361: one line of the batch.
ForLine ==
    /\ pc = "for"
    /\ lines # <<>>
    /\ LET _line == NextLine(lines) IN
       IF SkipLine(_line.data)
       THEN /\ lines' = Tail(lines)
            /\ UNCHANGED <<object, last_packet, pc, observed>>
       ELSE \E fv \in {"True", "False", "raise"} :
            \E out \in {handle_decoder_line(Self, _line.data, fv)} :
            /\ imet_id' = out.imet_id
            /\ exit_state' = out.exit_state
            /\ decoder_running' = out.decoder_running
            /\ filter_calls' = filter_calls \o
                 [i \in 1..Len(out.filter_calls) |->
                    [n |-> _line.n, telemetry |-> out.filter_calls[i].telemetry,
                     verdict |-> out.filter_calls[i].verdict]]
            /\ exporter_calls' = exporter_calls \o
                 [i \in 1..Len(out.exporter_calls) |->
                    [n |-> _line.n, exporter |-> out.exporter_calls[i].exporter,
                     telemetry |-> out.exporter_calls[i].telemetry]]
            /\ results' = Append(results, [n |-> _line.n, data |-> _line.data,
                                            ret |-> out.ret])
            /\ last_accepted' = IF out.telem_ok THEN now ELSE last_accepted
            /\ IF Raised(out.ret)
               THEN /\ pc' = "crashed"
                    /\ UNCHANGED <<last_packet, lines>>
               ELSE /\ last_packet' = LastPacketAfter(out.ret, last_packet, now)
                    /\ lines' = Tail(lines)
                    /\ pc' = "for"
    /\ UNCHANGED <<config, decode_process, async_reader, now, emitted,
                   callers, teardown>>

\* A timeout taken in minutes.
TimedOutMinutes(t, _last_packet, _timeout) == t > _last_packet + 60 * _timeout

\* Line 365: the timeout test.
TimedOut(t, _last_packet, _timeout) == t > _last_packet + _timeout

\* Lines 364-372: after the batch, check the timeout counter.
CheckTimeout ==
    /\ pc = "for"
    /\ lines = <<>>
    /\ IF TimedOut(now, last_packet, timeout)
       THEN /\ exit_state' = "Timeout"
            /\ pc' = "teardown"
       ELSE /\ pc' = "while"
            /\ UNCHANGED exit_state
    /\ UNCHANGED <<config, decoder_running, imet_id, decode_process,
                   async_reader, last_packet, lines, now, emitted, callers,
                   observed, teardown>>

\* Lines 378-383: async_reader.stop(), then SIGKILL to the process group;
\* a failure of os.killpg is logged and the teardown goes on.
TeardownKillpg ==
    /\ pc = "teardown"
    /\ \E ok \in BOOLEAN :
        /\ decode_process' = IF ok /\ decode_process = "running" THEN "killed"
                             ELSE decode_process
        /\ async_reader' = [async_reader EXCEPT
                               !.stopped = TRUE,
                               !.alive = IF ok THEN FALSE ELSE @]
        /\ teardown' = teardown \o
              <<"reader.stop", IF ok THEN "killpg" ELSE "killpg failed">>
    /\ pc' = "sleep"
    /\ UNCHANGED <<config, object, last_packet, lines, now, emitted, callers,
                   observed>>

\* A failure of the kill that ends the teardown.
KillThenJoinPropagating(ok) ==
    IF ok THEN <<"kill", "reader.join">> ELSE <<"kill failed">>

\* Lines 385-391: the kill through the Popen object is attempted, a failure
\* is logged, and the reader is joined.
KillThenJoin(ok) == <<IF ok THEN "kill" ELSE "kill failed", "reader.join">>

\* Lines 384-389: after a second, SIGKILL through the Popen object (killing
\* a process that is already gone may fail; a failure is logged).  The
\* thread goes on to the join unless the failure ended the teardown.
TeardownKill ==
    /\ pc = "sleep"
    /\ decode_process' = IF decode_process = "running" THEN "killed"
                         ELSE decode_process
    /\ \E ok \in IF decode_process = "running" THEN {TRUE} ELSE BOOLEAN :
        LET steps == KillThenJoin(ok) IN
        /\ teardown' = Append(teardown, Head(steps))
        /\ pc' = IF Len(steps) > 1 THEN "join" ELSE "closed"
    /\ async_reader' = [async_reader EXCEPT !.alive = FALSE]
    /\ UNCHANGED <<config, object, last_packet, lines, now, emitted, callers,
                   observed>>

\* Line 391: async_reader.join() returns once the reader's thread has
\* ended; other threads run while the decoder thread waits in it.
TeardownJoin ==
    /\ pc = "join"
    /\ async_reader' = [async_reader EXCEPT !.joined = TRUE]
    /\ teardown' = Append(teardown, "reader.join")
    /\ pc' = "closed"
    /\ UNCHANGED <<config, object, decode_process, last_packet, lines, now,
                   emitted, callers, observed>>

\* Lines 398-399: the thread clears the running flag and ends.
ThreadFinish ==
    /\ pc = "closed"
    /\ decoder_running' = FALSE
    /\ pc' = "done"
    /\ UNCHANGED <<config, exit_state, imet_id, decode_process, async_reader,
                   last_packet, lines, now, emitted, callers, observed,
                   teardown>>

(***************************************************************************)
(* stop(), called by caller c.                                             *)
(***************************************************************************)
\* Line 549: clear the running flag; line 551: join only a started thread.
StopCall(c) ==
    /\ ctor_raised = None
    /\ callers[c] = "idle"
    /\ decoder_running' = FALSE
    /\ callers' = [callers EXCEPT ![c] = IF decoder # None THEN "join"
                                         ELSE "returned"]
    /\ UNCHANGED <<config, exit_state, imet_id, decode_process, async_reader,
                   pc, last_packet, lines, now, emitted, observed, teardown>>

\* Line 552: decoder.join() returns once the thread has ended.
StopJoin(c) ==
    /\ callers[c] = "join"
    /\ ThreadEnded(pc)
    /\ callers' = [callers EXCEPT ![c] = "returned"]
    /\ UNCHANGED <<config, object, decode_process, async_reader, pc,
                   last_packet, lines, now, emitted, observed, teardown>>

(***************************************************************************)
(* The child process, the reader and the clock.                            *)
(***************************************************************************)
\* The child writes one of the lines of S; the reader queues it.
Emit(S) ==
    /\ decode_process = "running"
    /\ async_reader.alive /\ ~async_reader.stopped
    /\ emitted < MaxLines
    /\ \E data \in S :
        async_reader' = [async_reader EXCEPT
            !.queue = Append(@, [n |-> emitted + 1, data |-> data])]
    /\ emitted' = emitted + 1
    /\ UNCHANGED <<config, object, decode_process, pc, last_packet, lines,
                   now, callers, observed, teardown>>

ChildEmit == Emit(LineSet)

\* The child exits by itself; the reader reaches the end of its output.
ChildExit ==
    /\ decode_process = "running"
    /\ decode_process' = "exited"
    /\ async_reader' = [async_reader EXCEPT !.alive = FALSE]
    /\ UNCHANGED <<config, object, pc, last_packet, lines, now, emitted,
                   callers, observed, teardown>>

\* Time passes.
Tick ==
    /\ now < MaxTime
    /\ now' = now + 1
    /\ UNCHANGED <<config, object, decode_process, async_reader, pc,
                   last_packet, lines, emitted, callers, observed, teardown>>

Thread ==
    \/ ThreadStart
    \/ WhileTest
    \/ ForLine
    \/ CheckTimeout
    \/ TeardownKillpg
    \/ TeardownKill
    \/ TeardownJoin
    \/ ThreadFinish

Next ==
    \/ Thread
    \/ \E c \in DOMAIN callers : StopCall(c)
    \/ \E c \in DOMAIN callers : StopJoin(c)
    \/ ChildEmit
    \/ ChildExit
    \/ Tick

Spec == Init /\ [][Next]_vars

\* The decoder thread is a thread of its own and is always scheduled.
FairSpec == PlainInit /\ [][Next]_vars /\ WF_vars(Thread)

\* stop() called from two threads.
SharedSpec == SharedInit /\ [][Next]_vars

\* The decoder with a child that writes the lines of S.
NextWith(S) ==
    \/ Thread
    \/ \E c \in DOMAIN callers : StopCall(c)
    \/ \E c \in DOMAIN callers : StopJoin(c)
    \/ Emit(S)
    \/ ChildExit
    \/ Tick

\* The decoder thread and a child that writes the lines of S, with no
\* stop() requested and within one tick of the clock.
ThreadWith(S) ==
    \/ Thread
    \/ Emit(S)
    \/ ChildExit

\* A decoder whose child writes frames that lack required fields.
MissingNext == ThreadWith(MissingLines)
MissingSpec == FilteredInit /\ [][MissingNext]_vars

\* A decoder whose child writes lines that are rejected, as time passes.
RejectNext == ThreadWith(RejectLines) \/ Tick
RejectSpec == FilteredInit /\ [][RejectNext]_vars

\* A decoder whose child writes frames with and without optional fields.
OptionalNext == ThreadWith(OptionalLines)
OptionalSpec == FilteredInit /\ [][OptionalNext]_vars

\* A decoder whose child writes frames with the encryption marker.
EncryptedNext == ThreadWith(EncryptedLines) \/ Tick
EncryptedSpec == FilteredInit /\ [][EncryptedNext]_vars

\* An iMet decoder and its child.
ImetNext == NextWith(ImetLines)
ImetSpec == ImetInit /\ [][ImetNext]_vars

(***************************************************************************)
(* Vocabulary of the properties.                                           *)
(***************************************************************************)
\* This step handled a line; Handled is its entry in results.
LineHandled == Len(results') = Len(results) + 1
Handled == results'[Len(results')]

\* The calls this step made to the filter and to the exporters.
NewFilterCalls == SubSeq(filter_calls', Len(filter_calls) + 1, Len(filter_calls'))
NewExporterCalls ==
    SubSeq(exporter_calls', Len(exporter_calls) + 1, Len(exporter_calls'))

\* The line is a JSON object with every required field.
HasRequiredFields(data) ==
    /\ data.ascii /\ data.first = "{" /\ data.json = "dict"
    /\ \A i \in 1..Len(DECODER_REQUIRED_FIELDS) :
          DECODER_REQUIRED_FIELDS[i] \in DOMAIN data.obj

\* The line is a record carrying the encryption marker.
IsEncryptedRecord(data) ==
    HasRequiredFields(data) /\ "encrypted" \in DOMAIN data.obj

\* The line is a telemetry frame that passes every check of the normalizer
\* for the sonde type of this decoder.
Normalizes(data) ==
    /\ HasRequiredFields(data)
    /\ "encrypted" \notin DOMAIN data.obj
    /\ parse(data.obj["datetime"]) >= 0
    /\ sonde_type = iMet =>
          /\ "sats" \in DOMAIN data.obj
          /\ data.obj["sats"] >= 4

\* No filter, or the filter called in this step did not reject.
FilterAccepted ==
    \/ telem_filter = None
    \/ /\ NewFilterCalls # <<>>
       /\ NewFilterCalls[1].verdict # "False"

\* The decoder was given exporters.
HasExporters == decoder # None /\ exporters # None

\* The constructor met a configuration error: an unsupported sonde type,
\* no decoder command, or an exporter argument that is not a function or
\* a list of functions.
ConfigurationError ==
    \/ sonde_type \notin VALID_SONDE_TYPES
    \/ decoder_command = None
    \/ ctor_raised = "TypeError"
    \/ /\ exporters # None /\ exporters # "unset"
       /\ \E i \in DOMAIN exporters : exporters[i] = "notfunction"

\* The line is a transient reject for this decoder: it does not start with
\* '{', is not JSON, is not an object, lacks a required field, or (without
\* the encryption marker) has a timestamp that does not parse or, for the
\* iMet, a satellite count below the lock threshold.
TransientReject(data) ==
    \/ data.ascii /\ data.first # "{"
    \/ data.ascii /\ data.first = "{" /\ data.json # "dict"
    \/ data.ascii /\ data.first = "{" /\ data.json = "dict"
          /\ ~HasRequiredFields(data)
    \/ /\ HasRequiredFields(data)
       /\ "encrypted" \notin DOMAIN data.obj
       /\ \/ parse(data.obj["datetime"]) < 0
          \/ /\ sonde_type = iMet
             /\ "sats" \in DOMAIN data.obj
             /\ data.obj["sats"] < MinSats

\* The documented defaults of the optional fields (-273.0, -1, -1, 0.0, 0.0,
\* 0.0, in whole numbers).
DocumentedDefault(_field) ==
    CASE _field = "temp" -> -273
      [] _field = "humidity" -> -1
      [] _field = "batt" -> -1
      [] _field = "vel_h" -> 0
      [] _field = "vel_v" -> 0
      [] _field = "heading" -> 0

\* The record has, for each optional field, the value the line supplied or,
\* where the line has none, the documented default.
OptionalFieldsOf(_telemetry, data) ==
    \A _field \in {"temp", "humidity", "batt", "vel_h", "vel_v", "heading"} :
        /\ _field \in DOMAIN _telemetry
        /\ _telemetry[_field] = IF _field \in DOMAIN data.obj
                                THEN data.obj[_field]
                                ELSE DocumentedDefault(_field)

\* Some caller's stop() has returned.
SomeStopReturned == \E c \in DOMAIN callers : callers[c] = "returned"

\* The ID that imet_unique_id gives for the frame of a line by itself.
OwnImetId(obj) ==
    imet_unique_id([frame |-> obj["frame"],
                    datetime_dt |-> imet_fix_datetime(obj["datetime"])])

\* The line is an iMet frame that passes the satellite-lock check.
HasGpsLock(data) == Normalizes(data) /\ data.obj["sats"] >= MinSats

(***************************************************************************)
(* C1.  Liveness timeout: a timeout check made when more than the timeout  *)
(* has passed since the last accepted line (or since the start of the      *)
(* thread) leaves the loop with exit state Timeout; the teardown follows   *)
(* (subprocess killed, reader joined) and running() becomes False.         *)
(***************************************************************************)
C1_TimeoutStopsDecoder ==
    (pc = "for" /\ lines = <<>> /\ now > last_packet + timeout)
        ~> (/\ pc = "done"
            /\ exit_state = "Timeout"
            /\ ~running
            /\ decode_process # "running"
            /\ async_reader.joined)

\* A decoder that timed out with the child still writing only lines that
\* were not accepted, and no stop() requested.
C1_Witness ==
    /\ pc = "done" /\ exit_state = "Timeout" /\ ~running
    /\ results # <<>>
    /\ \A i \in DOMAIN results : results[i].ret \in {"None", "False"}
    /\ \A i \in DOMAIN results : ~IsEncryptedRecord(results[i].data)
    /\ \A c \in DOMAIN callers : callers[c] = "idle"
    /\ decode_process = "killed"

(***************************************************************************)
(* C2.  Once a record with the encryption marker has been handled, the     *)
(* exit state is Encrypted and no other reason replaces it, not even       *)
(* Timeout in the same pass of the loop.                                   *)
(***************************************************************************)
C2_EncryptedExitState ==
    (\E i \in DOMAIN results : IsEncryptedRecord(results[i].data))
        => exit_state = "Encrypted"

(***************************************************************************)
(* C3.  After a record with the encryption marker has been handled,        *)
(* neither the filter nor any exporter is called again: not for that       *)
(* record and not for any later line, also of the same batch.              *)
(***************************************************************************)
C3_NoDispatchAfterEncrypted ==
    [][(\E i \in DOMAIN results' : IsEncryptedRecord(results'[i].data))
          => /\ filter_calls' = filter_calls
             /\ exporter_calls' = exporter_calls]_vars

(***************************************************************************)
(* C4.  stop() is synchronous: whenever a call of stop() has returned, the *)
(* child process is not running, the reader (if one was created) has been  *)
(* joined, and running() is False.                                         *)
(***************************************************************************)
C4_StopSynchronous ==
    \A c \in DOMAIN callers :
        callers[c] = "returned" =>
            /\ decode_process # "running"
            /\ async_reader.created => async_reader.joined
            /\ ~running

(***************************************************************************)
(* C5.  stop() is idempotent: once one call of stop() has returned, the    *)
(* thread of a started decoder has ended, so a later call does not block;  *)
(* a later call, from any thread, leaves the exit state, the running flag, *)
(* the latched ID, the child process and the reader as they were; and the  *)
(* teardown steps are taken at most once.                                  *)
(***************************************************************************)
C5_StopIdempotent ==
    /\ [](SomeStopReturned /\ decoder # None => pc \in {"done", "crashed"})
    /\ [](Len(teardown) <= 4
          /\ \A i, j \in DOMAIN teardown :
                (teardown[i] = teardown[j]) => (i = j))
    /\ [][(SomeStopReturned /\ callers' # callers) =>
             UNCHANGED <<exit_state, decoder_running, imet_id,
                         decode_process, async_reader, teardown>>]_vars

\* Both callers have called stop() on a started decoder and both calls
\* have returned.
C5_Witness ==
    /\ \A c \in DOMAIN callers : callers[c] = "returned"
    /\ decoder # None
    /\ Len(teardown) = 4

(***************************************************************************)
(* C6.  The normalizer never raises: every line handled gives a returned   *)
(* value, and the decoder thread never ends by an exception (so it always  *)
(* reaches the teardown and clears the running flag).                      *)
(***************************************************************************)
C6_NormalizerNeverRaises ==
    /\ \A i \in DOMAIN results : results[i].ret \in {"None", "False", "True"}
    /\ pc # "crashed"

(***************************************************************************)
(* C7.  Every line that normalizes and is accepted (no filter, or the      *)
(* filter accepts) resets the time of the last packet, whether or not      *)
(* exporters were given.                                                   *)
(***************************************************************************)
C7_AcceptedResetsClock ==
    [][(LineHandled /\ Normalizes(Handled.data) /\ FilterAccepted)
          => last_packet' = now]_vars

(***************************************************************************)
(* C8.  Consumer isolation: a frame that is accepted by a decoder with     *)
(* exporters is passed to every exporter exactly once, in the order of     *)
(* registration, whichever of them raise; the exit state and the running   *)
(* flag are unchanged, the thread goes on, and the line counts as accepted *)
(* (True is returned and the time of the last packet is reset).            *)
(***************************************************************************)
C8_ConsumerIsolation ==
    [][(LineHandled /\ HasExporters /\ Normalizes(Handled.data)
            /\ FilterAccepted)
          => /\ Len(NewExporterCalls) = Len(exporters)
             /\ \A i \in 1..Len(exporters) :
                   /\ NewExporterCalls[i].exporter = i
                   /\ NewExporterCalls[i].n = Handled.n
                   /\ NewExporterCalls[i].telemetry
                        = NewExporterCalls[1].telemetry
             /\ exit_state' = exit_state
             /\ decoder_running' = decoder_running
             /\ Handled.ret = "True"
             /\ last_packet' = now
             /\ pc' = "for"]_vars

\* A frame has been handled by a decoder whose first exporter raises: the
\* exporters after it were called as well.
C8_Witness ==
    /\ HasExporters
    /\ Len(exporters) >= 2
    /\ exporters[1] = "raise"
    /\ \E i \in DOMAIN results : results[i].ret = "True"
    /\ \E k \in DOMAIN exporter_calls : exporter_calls[k].exporter = Len(exporters)

(***************************************************************************)
(* C9.  Filter fail-open: when the filter raises on a frame, the frame is  *)
(* accepted: every exporter is called with it and the handler returns      *)
(* True, so that the time of the last packet is reset.                     *)
(***************************************************************************)
C9_FilterFailOpen ==
    [][(LineHandled /\ NewFilterCalls # <<>>
            /\ NewFilterCalls[1].verdict = "raise")
          => /\ Handled.ret = "True"
             /\ last_packet' = now
             /\ HasExporters => Len(NewExporterCalls) = Len(exporters)]_vars

(***************************************************************************)
(* C10.  A frame the filter rejects is passed to no exporter and does not  *)
(* reset the time of the last packet; while the filter has rejected every  *)
(* frame, no exporter has been called and no line has counted as accepted, *)
(* so the decoder times out although telemetry keeps arriving.             *)
(***************************************************************************)
C10_RejectedFramesStarve ==
    /\ []((\A i \in DOMAIN filter_calls : filter_calls[i].verdict = "False")
           /\ telem_filter # None
          => /\ exporter_calls = <<>>
             /\ \A i \in DOMAIN results : results[i].ret # "True")
    /\ [][(LineHandled /\ NewFilterCalls # <<>>
              /\ NewFilterCalls[1].verdict = "False")
            => /\ NewExporterCalls = <<>>
               /\ last_packet' = last_packet
               /\ Handled.ret # "True"]_vars

\* A decoder with exporters timed out after its filter rejected every frame
\* of valid telemetry.
C10_Witness ==
    /\ pc = "done" /\ exit_state = "Timeout"
    /\ HasExporters
    /\ filter_calls # <<>>
    /\ \A i \in DOMAIN filter_calls : filter_calls[i].verdict = "False"
    /\ \A i \in DOMAIN results : Normalizes(results[i].data)
    /\ exporter_calls = <<>>
    /\ \A c \in DOMAIN callers : callers[c] = "idle"

(***************************************************************************)
(* C11.  The latched iMet ID is write-once: it is None when the decoder    *)
(* starts; it is set only by handling an iMet frame that passes the GPS    *)
(* lock check, to the ID calculated from that frame; once set it never     *)
(* changes; and every frame an iMet decoder passes to the filter or to an  *)
(* exporter carries the latched ID, also when the ID calculated from the   *)
(* frame itself would differ.                                              *)
(***************************************************************************)
C11_ImetIdLatch ==
    /\ [](pc \in {"none", "start"} => imet_id = None)
    /\ [][imet_id # None => imet_id' = imet_id]_vars
    /\ [][imet_id' # imet_id
            => /\ LineHandled
               /\ sonde_type = iMet
               /\ HasGpsLock(Handled.data)
               /\ imet_id' = OwnImetId(Handled.data.obj)]_vars
    /\ [](sonde_type = iMet
          => /\ \A k \in DOMAIN exporter_calls :
                   /\ imet_id # None
                   /\ exporter_calls[k].telemetry["id"] = imet_id
             /\ \A k \in DOMAIN filter_calls :
                   /\ imet_id # None
                   /\ filter_calls[k].telemetry["id"] = imet_id)

\* An iMet decoder has passed two frames to its exporter, and the ID
\* calculated from the second frame by itself differs from the one it
\* carries.
C11_Witness ==
    /\ sonde_type = iMet
    /\ \E j, k \in DOMAIN exporter_calls :
          /\ exporter_calls[j].n < exporter_calls[k].n
          /\ exporter_calls[j].telemetry["id"] = imet_id
          /\ exporter_calls[k].telemetry["id"] = imet_id
          /\ imet_unique_id(exporter_calls[k].telemetry) # imet_id

(***************************************************************************)
(* C12.  Arrival order: lines are handled in the order the child wrote     *)
(* them and none is handled twice, over any number of passes of the loop   *)
(* and batches of readlines(); so the filter and every exporter see the    *)
(* frame of an earlier line before that of a later one, and no exporter    *)
(* is passed a line twice.                                                 *)
(***************************************************************************)
C12_ArrivalOrder ==
    /\ \A i, j \in DOMAIN results :
          i < j => results[i].n < results[j].n
    /\ \A i, j \in DOMAIN filter_calls :
          i < j => filter_calls[i].n < filter_calls[j].n
    /\ \A i, j \in DOMAIN exporter_calls :
          i < j =>
            /\ exporter_calls[i].n <= exporter_calls[j].n
            /\ exporter_calls[i].exporter = exporter_calls[j].exporter
                  => exporter_calls[i].n < exporter_calls[j].n

\* A decoder with several exporters has dispatched the first two lines of
\* its child, the first before the second.
C12_Witness ==
    /\ HasExporters
    /\ Len(exporters) >= 2
    /\ Len(exporter_calls) = 2 * Len(exporters)
    /\ exporter_calls[1].n = 1
    /\ exporter_calls[Len(exporter_calls)].n = 2

C14_MissingFieldRejected ==
    /\ [][(LineHandled /\ Handled.data.json = "dict"
              /\ ~HasRequiredFields(Handled.data))
            => /\ Handled.ret = "False"
               /\ NewFilterCalls = <<>>
               /\ NewExporterCalls = <<>>]_vars
    /\ [](\A k \in DOMAIN filter_calls : \A i \in DOMAIN results :
             filter_calls[k].n = results[i].n
                => HasRequiredFields(results[i].data))
    /\ [](\A k \in DOMAIN exporter_calls :
             \A i \in 1..Len(DECODER_REQUIRED_FIELDS) :
                DECODER_REQUIRED_FIELDS[i]
                    \in DOMAIN exporter_calls[k].telemetry)

\* A decoder with a filter and an exporter has handled a frame that lacks
\* only its altitude and then dispatched a complete frame.
C14_Witness ==
    /\ Len(results) = 2
    /\ results[1].data = MissingLine("alt")
    /\ results[1].ret = "False"
    /\ results[2].ret = "True"
    /\ Len(exporter_calls) = 1
    /\ exporter_calls[1].n = 2

(***************************************************************************)
(* C15.  Handling a transient reject (a line that does not start with      *)
(* '{', malformed JSON, JSON that is not an object, a missing required     *)
(* field, an unparseable timestamp, no satellite lock) leaves the exit     *)
(* state, the running flag, the latched ID and the time of the last        *)
(* packet as they were, calls neither the filter nor any exporter, and     *)
(* the thread goes on with the batch.                                      *)
(***************************************************************************)
C15_TransientRejects ==
    [][(LineHandled /\ TransientReject(Handled.data))
          => /\ Handled.ret \in {"None", "False"}
             /\ exit_state' = exit_state
             /\ decoder_running' = decoder_running
             /\ imet_id' = imet_id
             /\ last_packet' = last_packet
             /\ NewFilterCalls = <<>>
             /\ NewExporterCalls = <<>>
             /\ pc' = "for"]_vars

\* An iMet decoder has handled a frame without lock and a frame whose
\* timestamp does not parse, one tick after it started: it is still running
\* with nothing latched, nothing dispatched and its clock not reset.
C15_Witness ==
    /\ sonde_type = iMet
    /\ Len(results) = 2
    /\ results[1].data = LLowSats
    /\ results[2].data = LBadDate
    /\ pc = "for"
    /\ now = 1 /\ last_packet = 0
    /\ running /\ exit_state = "OK" /\ imet_id = None
    /\ filter_calls = <<>> /\ exporter_calls = <<>>

(***************************************************************************)
(* C16.  Optional-field defaults: every record passed to the filter or to  *)
(* an exporter holds each optional field (temp, humidity, batt, vel_h,     *)
(* vel_v, heading): with the value of the line where the line has the      *)
(* field, and with the documented default (-273.0, -1, -1, 0.0, 0.0, 0.0)  *)
(* where it has not; for every line, not only the first.                   *)
(***************************************************************************)
C16_OptionalDefaults ==
    /\ \A k \in DOMAIN exporter_calls : \A i \in DOMAIN results :
          exporter_calls[k].n = results[i].n
             => OptionalFieldsOf(exporter_calls[k].telemetry, results[i].data)
    /\ \A k \in DOMAIN filter_calls : \A i \in DOMAIN results :
          filter_calls[k].n = results[i].n
             => OptionalFieldsOf(filter_calls[k].telemetry, results[i].data)

\* Two frames have been dispatched: the first reports no optional field,
\* the second, after it, reports the odd ones only.
C16_Witness ==
    /\ Len(exporter_calls) = 2
    /\ Len(results) = 2
    /\ results[1].data = OptionalLine({})
    /\ results[2].data = OptionalLine({"temp", "batt", "vel_v"})
    /\ exporter_calls[1].telemetry["temp"] = -273
    /\ exporter_calls[2].telemetry["temp"] = 20
    /\ exporter_calls[2].telemetry["humidity"] = -1

(***************************************************************************)
(* C17.  Once stop() has been requested with the thread in its loop, or    *)
(* the reader reports the end of the stream, and no record with the        *)
(* encryption marker is handled, the exit state stays the non-failure      *)
(* value ("OK") on the way to the teardown: it does not become Timeout.    *)
(***************************************************************************)
C17_StopExitsStopped ==
    [][(/\ pc \in {"while", "for"}
        /\ ~decoder_running \/ ReaderEof(async_reader)
        /\ \A i \in DOMAIN results' : ~IsEncryptedRecord(results'[i].data))
          => exit_state' = "OK"]_vars

(***************************************************************************)
(* C18.  Teardown protocol: whatever ended the loop (timeout, stop(),      *)
(* encrypted record, end of stream), the teardown takes the same steps in  *)
(* the same order: stop the reader, SIGKILL to the process group, a pause, *)
(* kill through the Popen object, join the reader.  A failure of the       *)
(* first kill does not skip the second, a failure of either does not skip  *)
(* the join, and the thread ends with running() False.                     *)
(***************************************************************************)
C18_TeardownProtocol ==
    /\ Len(teardown) <= 4
    /\ Len(teardown) >= 1 => teardown[1] = "reader.stop"
    /\ Len(teardown) >= 2 => teardown[2] \in {"killpg", "killpg failed"}
    /\ Len(teardown) >= 3 => teardown[3] \in {"kill", "kill failed"}
    /\ Len(teardown) >= 4 => teardown[4] = "reader.join"
    /\ pc \in {"start", "while", "for", "teardown"} => teardown = <<>>
    /\ pc = "sleep" => Len(teardown) = 2
    /\ pc = "join" => Len(teardown) = 3
    /\ pc \in {"closed", "done"} =>
          /\ Len(teardown) = 4
          /\ async_reader.stopped /\ async_reader.joined
    /\ pc = "done" => ~running

\* The thread of a decoder closed by an encrypted record has ended: the
\* child had exited by itself, both kills failed, and the reader was joined
\* all the same.
C18_Witness ==
    /\ pc = "done" /\ ~running
    /\ exit_state = "Encrypted"
    /\ teardown = <<"reader.stop", "killpg failed", "kill failed", "reader.join">>
    /\ async_reader.joined

(***************************************************************************)
(* C19.  An iMet frame with fewer than 4 satellites is rejected before any *)
(* ID is calculated: the handler returns False, neither the filter nor an  *)
(* exporter is called with it, and the latched ID is what it was (None if  *)
(* nothing was latched).                                                   *)
(***************************************************************************)
C19_NoLockNoIdentity ==
    /\ [][(/\ LineHandled
            /\ sonde_type = iMet
            /\ Handled.data.json = "dict"
            /\ "sats" \in DOMAIN Handled.data.obj
            /\ Handled.data.obj["sats"] < 4)
          => /\ Handled.ret = "False"
             /\ imet_id' = imet_id
             /\ NewFilterCalls = <<>>
             /\ NewExporterCalls = <<>>]_vars
    /\ [](sonde_type = iMet =>
            /\ \A k \in DOMAIN exporter_calls :
                  exporter_calls[k].telemetry["sats"] >= 4
            /\ \A k \in DOMAIN filter_calls :
                  filter_calls[k].telemetry["sats"] >= 4)

\* An iMet decoder has handled a frame without lock, which latched
\* nothing, and no other frame yet.
C19_Witness ==
    /\ sonde_type = iMet
    /\ Len(results) = 1
    /\ results[1].data = LLowSats
    /\ results[1].ret = "False"
    /\ imet_id = None
    /\ filter_calls = <<>> /\ exporter_calls = <<>>
    /\ pc = "for" /\ lines # <<>>

(***************************************************************************)
(* C20.  Order of the checks around the encryption marker: required        *)
(* fields, then the marker, then the timestamp.  A frame with the marker   *)
(* and every required field closes the decoder as Encrypted (exit state    *)
(* Encrypted, running flag cleared, no further pass of the loop) also when *)
(* its timestamp does not parse; a frame with the marker that lacks a      *)
(* required field is only rejected, and the decoder keeps running.         *)
(***************************************************************************)
C20_EncryptionCheckOrder ==
    /\ [][(LineHandled /\ IsEncryptedRecord(Handled.data))
            => /\ Handled.ret = "False"
               /\ exit_state' = "Encrypted"
               /\ ~decoder_running'
               /\ NewFilterCalls = <<>>
               /\ NewExporterCalls = <<>>]_vars
    /\ [][(\E i \in DOMAIN results : IsEncryptedRecord(results[i].data))
            => (pc' = "for" => pc = "for")]_vars
    /\ [][(/\ LineHandled
            /\ Handled.data.json = "dict"
            /\ "encrypted" \in DOMAIN Handled.data.obj
            /\ ~HasRequiredFields(Handled.data))
            => /\ Handled.ret = "False"
               /\ exit_state' = exit_state
               /\ decoder_running' = decoder_running
               /\ pc' = "for"]_vars

\* A decoder has handled a frame with the marker that lacks its id and was
\* still running; then a frame with the marker, every required field and an
\* unparseable timestamp closed it as Encrypted.
C20_Witness ==
    /\ Len(results) = 2
    /\ results[1].data = LEncMissing
    /\ results[2].data = LEncBadDate
    /\ last_packet < now
    /\ exit_state = "Encrypted"
    /\ pc = "done" /\ ~running
    /\ Len(teardown) = 4

(***************************************************************************)
(* C21.  No line is lost at the end of the stream: when the thread has     *)
(* left its loop with no stop() requested, no timeout and no encrypted     *)
(* record (so because the reader reported EOF), every line the child       *)
(* wrote has been passed to handle_decoder_line exactly once, in order,    *)
(* and nothing is left in the reader's queue or in the batch.              *)
(***************************************************************************)
C21_NoLineLostAtEof ==
    (/\ pc \in {"teardown", "sleep", "join", "closed", "done"}
     /\ exit_state = "OK"
     /\ \A c \in DOMAIN callers : callers[c] = "idle")
        => /\ Len(results) = emitted
           /\ \A i \in DOMAIN results : results[i].n = i
           /\ async_reader.queue = <<>>
           /\ lines = <<>>

\* The child wrote all its lines and exited by itself; the thread has
\* handled each of them and ended, with nobody calling stop().
C21_Witness ==
    /\ pc = "done"
    /\ exit_state = "OK"
    /\ \A c \in DOMAIN callers : callers[c] = "idle"
    /\ decode_process = "exited"
    /\ emitted = MaxLines
    /\ Len(results) = MaxLines

(***************************************************************************)
(* C22.  For a decoder whose thread was started, running() False means     *)
(* the teardown is over: the child process has been killed (or has gone)   *)
(* and the reader has been joined.  The running flag is not cleared        *)
(* before that, neither by stop() nor by an encrypted record.              *)
(***************************************************************************)
C22_NotRunningMeansTornDown ==
    (decoder # None /\ ~running)
        => /\ decode_process \in {"killed", "exited"}
           /\ async_reader.joined

(***************************************************************************)
(* C23.  Timeout is never spurious: the exit reason becomes "Timeout"      *)
(* only in a step taken when strictly more than the configured timeout     *)
(* has elapsed since the later of the thread's start and the last line     *)
(* the handler accepted.  A line accepted in the same poll iteration has   *)
(* reset that clock before the iteration's check, so the check does not    *)
(* time out.                                                               *)
(***************************************************************************)
C23_TimeoutNeverSpurious ==
    [][(exit_state' = "Timeout" /\ exit_state # "Timeout")
           => now > last_accepted + timeout]_vars

(***************************************************************************)
(* C24.  Once stop() has returned to a caller, the thread makes no more    *)
(* call to the filter or to an exporter and does not change the exit       *)
(* reason again, whatever the interleaving of stop() with the loop.        *)
(***************************************************************************)
C24_QuietAfterStopReturns ==
    [][SomeStopReturned
           => /\ filter_calls' = filter_calls
              /\ exporter_calls' = exporter_calls
              /\ exit_state' = exit_state]_vars

\* stop() has returned for a decoder whose thread had dispatched a frame
\* to the filter and to the exporters before it was stopped.
C24_Witness ==
    /\ SomeStopReturned
    /\ pc = "done"
    /\ filter_calls # <<>>
    /\ exporter_calls # <<>>
====
